---------------------------- MODULE Spec2Model ----------------------------
(***************************************************************************)
(* A model of the causalmodel package: the partitioned dataset (POdata),   *)
(* the propensity fix, the IPW estimator, the difference-in-means helper,  *)
(* the neighbour selection of the matching estimator, the cross-fitting    *)
(* loop of the DML estimator, the Experimental object with its Fisher      *)
(* randomization test, the result builder, and the match-count loops of    *)
(* the matching estimator.                                                 *)
(*                                                                         *)
(* Each component is a state machine of its own over the shared variable   *)
(* list: the variable `unit' names the component a behaviour exercises,    *)
(* and every action is guarded by it.  SpecData, SpecProp, ... start one   *)
(* component each; Spec starts any of them.                                *)
(*                                                                         *)
(* numpy's floating point numbers are modelled as exact rationals          *)
(* [n |-> numerator, d |-> denominator] in lowest terms, with d = 0 for a  *)
(* non-finite value (nan, inf), which every operation propagates.          *)
(***************************************************************************)
EXTENDS Integers, Sequences, FiniteSets, TLC

VARIABLES
    unit,          \* the component under analysis
    po_args,       \* POdata: the arguments Y, Z, X of the constructor call
    po_data,       \* POdata: the attributes the constructed object holds
    po_outcome,    \* POdata: "idle" | "returned" | "raised"
    po_logged,     \* POdata: whether the call logged an error
    fp_in,         \* _fix_propensity: self.propensity as it was before the call
    fp_propensity, \* _fix_propensity: self.propensity
    fp_warnings,   \* _fix_propensity: the counts the call's warnings report
    fp_done,       \* _fix_propensity: whether the call has been made
    ipw_data,      \* Observational: the dataset (Y, Z) of the object
    ipw_call,      \* est_via_ipw: the arguments of the last call
    ipw_propensity,\* est_via_ipw: self.propensity after the call
    ipw_result,    \* est_via_ipw: the (ate, se^2) the call computes
    mm_X,          \* mat_match_mat: the query rows X
    mm_Y,          \* mat_match_mat: the donor rows Y
    mm_M,          \* mat_match_mat: the number of neighbours M
    mm_query,      \* mat_match_mat: idx as tree.query returned it
    mm_idx,        \* mat_match_mat: the matrix returned (<<>> before the call)
    dml_n,         \* est_via_dml: self.data.n
    dml_K,         \* est_via_dml: Kfolds
    dml_pc,        \* est_via_dml: "call" | "loop" | "done" | "raised"
    dml_fold,      \* est_via_dml: the folds the loop has completed
    dml_outcome,   \* est_via_dml: the rows OutcomeModel was last fit on
    dml_treatment, \* est_via_dml: the rows TreatmentModel was last fit on
    dml_log,       \* est_via_dml: per fold, the held-out rows and the rows the
                   \* models predicting U and V had been fit on
    exp_obj,       \* Experimental: the fields of each object
    exp_design,    \* Design: what each design object was last calibrated with
    exp_ret,       \* Experimental: how the last call ended
    res_G,         \* _get_results: the argument G
    res_result,    \* _get_results: the record built (<<>> before the call)
    km_Xt,         \* est_via_matching: Xt_scaled, one coordinate per treated unit
    km_Xc,         \* est_via_matching: Xc_scaled, one coordinate per control unit
    km_M,          \* est_via_matching: num_matches
    km_match_t,    \* est_via_matching: match_for_t (<<>> before the call)
    km_match_c,    \* est_via_matching: match_for_c (<<>> before the call)
    km_Km          \* est_via_matching: Km after the loops (<<>> before the call)

dataVars == <<po_args, po_data, po_outcome, po_logged>>
propVars == <<fp_in, fp_propensity, fp_warnings, fp_done>>
ipwVars == <<ipw_data, ipw_call, ipw_propensity, ipw_result>>
matchVars == <<mm_X, mm_Y, mm_M, mm_query, mm_idx>>
dmlVars == <<dml_n, dml_K, dml_pc, dml_fold, dml_outcome, dml_treatment, dml_log>>
expVars == <<exp_obj, exp_design, exp_ret>>
resVars == <<res_G, res_result>>
kmVars == <<km_Xt, km_Xc, km_M, km_match_t, km_match_c, km_Km>>

vars ==
    <<unit, dataVars, propVars, ipwVars, matchVars, dmlVars, expVars, resVars,
      kmVars>>

\* the variables of the other components
notData == <<propVars, ipwVars, matchVars, dmlVars, expVars, resVars, kmVars>>
notProp == <<dataVars, ipwVars, matchVars, dmlVars, expVars, resVars, kmVars>>
notIpw == <<dataVars, propVars, matchVars, dmlVars, expVars, resVars, kmVars>>
notMatch == <<dataVars, propVars, ipwVars, dmlVars, expVars, resVars, kmVars>>
notDml == <<dataVars, propVars, ipwVars, matchVars, expVars, resVars, kmVars>>
notExp == <<dataVars, propVars, ipwVars, matchVars, dmlVars, resVars, kmVars>>
notRes == <<dataVars, propVars, ipwVars, matchVars, dmlVars, expVars, kmVars>>
notKm == <<dataVars, propVars, ipwVars, matchVars, dmlVars, expVars, resVars>>

---------------------------------------------------------------------------
(* Bounds of the model. *)

\* longest array handed to the POdata constructor
MaxLen == 2
\* longest propensity vector handed to _fix_propensity
MaxProp == 3
\* most units of a dataset handed to est_via_ipw
MaxUnits == 3
\* most donor rows, most query rows and most neighbours in mat_match_mat
MaxDonors == 2
MaxQueries == 2
MaxM == 4
\* most units of a dataset handed to est_via_dml
MaxDmlN == 7
\* the units of an experiment, and most repetitions of the randomization test
ExpUnits == 2
MaxReps == 2
\* longest G handed to _get_results
MaxG == 3
\* most treated units, most control units and largest num_matches in the
\* match-count loops of est_via_matching
MaxTreated == 2
MaxControl == 2
MaxMatches == 3

---------------------------------------------------------------------------
(* Exact rational arithmetic standing for numpy's float64 arithmetic. *)

Abs(x) == IF x < 0 THEN -x ELSE x

RECURSIVE GCD(_, _)
GCD(a, b) == IF b = 0 THEN a ELSE GCD(b, a % b)

NaN == [n |-> 0, d |-> 0]

Rat(num, den) ==
    IF den = 0 THEN NaN
    ELSE LET s == IF den < 0 THEN -1 ELSE 1
             g == GCD(Abs(num), Abs(den))
         IN  [n |-> (s * num) \div g, d |-> (s * den) \div g]

I2R(i) == [n |-> i, d |-> 1]

Finite(a) == a.d # 0

RAdd(a, b) ==
    IF ~Finite(a) \/ ~Finite(b) THEN NaN
    ELSE LET g == GCD(a.d, b.d)
         IN  Rat(a.n * (b.d \div g) + b.n * (a.d \div g), (a.d \div g) * b.d)

RNeg(a) == IF Finite(a) THEN [n |-> -a.n, d |-> a.d] ELSE NaN

RSub(a, b) == RAdd(a, RNeg(b))

RMul(a, b) ==
    IF ~Finite(a) \/ ~Finite(b) THEN NaN
    ELSE LET g1 == GCD(Abs(a.n), b.d)
             g2 == GCD(Abs(b.n), a.d)
         IN  Rat((a.n \div g1) * (b.n \div g2), (a.d \div g2) * (b.d \div g1))

\* x / 0 is nan or +-inf in numpy (with a RuntimeWarning): non-finite here
RDiv(a, b) ==
    IF ~Finite(a) \/ ~Finite(b) \/ b.n = 0 THEN NaN
    ELSE RMul(a, Rat(b.d, b.n))

\* comparisons with a non-finite operand are modelled as false (nan)
RLess(a, b) == Finite(a) /\ Finite(b) /\ a.n * b.d < b.n * a.d

RECURSIVE RSum(_)
RSum(s) == IF s = <<>> THEN I2R(0) ELSE RAdd(Head(s), RSum(Tail(s)))

\* np.mean: the mean of an empty array is nan
RMean(s) == RDiv(RSum(s), I2R(Len(s)))

\* np.var (ddof = 0)
RVar(s) ==
    LET m == RMean(s)
    IN  RMean([i \in 1..Len(s) |-> RMul(RSub(s[i], m), RSub(s[i], m))])

\* boolean-mask indexing a[mask]
RECURSIVE MaskSelect(_, _)
MaskSelect(a, mask) ==
    IF a = <<>> THEN <<>>
    ELSE IF Head(mask) THEN <<Head(a)>> \o MaskSelect(Tail(a), Tail(mask))
         ELSE MaskSelect(Tail(a), Tail(mask))

\* np.sum of a boolean array
RECURSIVE CountTrue(_)
CountTrue(mask) ==
    IF mask = <<>> THEN 0
    ELSE (IF Head(mask) THEN 1 ELSE 0) + CountTrue(Tail(mask))

SeqsUpTo(S, lo, hi) == UNION {[1..k -> S] : k \in lo..hi}

\* a learning model: not fitted yet, or fitted on a set of rows
Unfitted == [fitted |-> FALSE, rows |-> {}]
FittedOn(rows) == [fitted |-> TRUE, rows |-> rows]

\* self.propensity: None, or an array
NoPropensity == [isnone |-> TRUE, v |-> <<>>]
PropArray(v) == [isnone |-> FALSE, v |-> v]

---------------------------------------------------------------------------
(* POdata: the partitioned dataset (potentialoutcome.py). *)

\* an argument of the constructor: a numpy array or some other sized object
\* (a list), with its elements
YValues == {1, 2}
ZValues == {0, 1, 2}
XValues == {1, 2}
Arg(S) == [isarray : BOOLEAN, v : SeqsUpTo(S, 0, MaxLen)]

verify_data(Y, Z, X) ==
    IF ~(X.isarray /\ Y.isarray /\ Z.isarray) THEN FALSE
    ELSE IF ~(Len(Y.v) = Len(Z.v) /\ Len(Z.v) = Len(X.v)) THEN FALSE
    ELSE TRUE

get_n(Y) == Len(Y.v)

\* The attributes of the object after POdata.__init__(Y, Z, X) has run.  The
\* constructor never raises: when verify_data fails it logs an error and
\* returns the object holding Y, Z and X only.
POdataAttrs(Y, Z, X) ==
    IF verify_data(Y, Z, X)
    THEN LET idx_t == [i \in 1..Len(Z.v) |-> Z.v[i] = 1]
             idx_c == [i \in 1..Len(Z.v) |-> Z.v[i] = 0]
         IN  [Y |-> Y, Z |-> Z, X |-> X,
              n |-> get_n(Y),
              idx_t |-> idx_t, idx_c |-> idx_c,
              Yc |-> MaskSelect(Y.v, idx_c), Yt |-> MaskSelect(Y.v, idx_t),
              Xc |-> MaskSelect(X.v, idx_c), Xt |-> MaskSelect(X.v, idx_t)]
    ELSE [Y |-> Y, Z |-> Z, X |-> X]

POdataLogs(Y, Z, X) == ~verify_data(Y, Z, X)

IdleData ==
    /\ po_args = <<>>
    /\ po_data = <<>>
    /\ po_outcome = "idle"
    /\ po_logged = FALSE

IdleProp ==
    /\ fp_in = NoPropensity
    /\ fp_propensity = NoPropensity
    /\ fp_warnings = <<>>
    /\ fp_done = FALSE

IdleIpw ==
    /\ ipw_data = <<>>
    /\ ipw_call = <<>>
    /\ ipw_propensity = NoPropensity
    /\ ipw_result = <<>>

IdleMatch ==
    /\ mm_X = <<>>
    /\ mm_Y = <<>>
    /\ mm_M = 0
    /\ mm_query = <<>>
    /\ mm_idx = <<>>

IdleDml ==
    /\ dml_n = 0
    /\ dml_K = 0
    /\ dml_pc = "idle"
    /\ dml_fold = 0
    /\ dml_outcome = Unfitted
    /\ dml_treatment = Unfitted
    /\ dml_log = <<>>

\* an Experimental object that has not been constructed
NotBuilt ==
    [built |-> FALSE, Y |-> <<>>, Z |-> <<>>, design |-> "none",
     cal_stats |-> "none", stats |-> NaN, estimator |-> "none", ate |-> NaN]

\* a design object nothing has calibrated
NotCalibrated == [calibrated |-> FALSE, Z |-> <<>>, by |-> "none"]

NoReturn == [kind |-> "none"]

Objects == {"a", "b"}
\* the CRD() instance that is the default of Experimental.__init__'s design
\* parameter, and a design of its own that a caller makes for an object
Designs == {"default"} \cup Objects

IdleExp ==
    /\ exp_obj = [o \in Objects |-> NotBuilt]
    /\ exp_design = [d \in Designs |-> NotCalibrated]
    /\ exp_ret = NoReturn

IdleRes ==
    /\ res_G = <<>>
    /\ res_result = <<>>

IdleKm ==
    /\ km_Xt = <<>>
    /\ km_Xc = <<>>
    /\ km_M = 0
    /\ km_match_t = <<>>
    /\ km_match_c = <<>>
    /\ km_Km = <<>>

\* the caller holds the three arguments it is about to pass
InitData ==
    /\ unit = "data"
    /\ po_args \in [Y : Arg(YValues), Z : Arg(ZValues), X : Arg(XValues)]
    /\ po_data = <<>>
    /\ po_outcome = "idle"
    /\ po_logged = FALSE
    /\ IdleProp /\ IdleIpw /\ IdleMatch /\ IdleDml /\ IdleExp /\ IdleRes /\ IdleKm

\* POdata(Y, Z, X)
POdataInit ==
    /\ unit = "data"
    /\ po_outcome = "idle"
    /\ po_data' = POdataAttrs(po_args.Y, po_args.Z, po_args.X)
    /\ po_logged' = POdataLogs(po_args.Y, po_args.Z, po_args.X)
    /\ po_outcome' = "returned"
    /\ UNCHANGED <<unit, po_args, notData>>

NextData == POdataInit

SpecData == InitData /\ [][NextData]_vars

Attrs == IF po_outcome = "returned" THEN DOMAIN po_data ELSE {}

\* C1: constructing the dataset from arguments that are not all arrays of one
\* length aborts the call; no object lacking n and the treated/control
\* partitions is handed back to the caller.
C1_InvalidConstructionAborts ==
    (po_outcome # "idle" /\ ~verify_data(po_args.Y, po_args.Z, po_args.X))
        => (po_outcome = "raised"
            /\ ~(po_outcome = "returned" /\ ~({"n", "Yt", "Yc", "Xt", "Xc"} \subseteq Attrs)))

\* C2: a dataset built from valid equal-length arrays exposes nt and nc with
\* nt + nc = n, len(Yt) = len(Xt) = nt, len(Yc) = len(Xc) = nc, the treated
\* rows being those with Z = 1 and the control rows those with Z = 0.
C2_CountsPartition ==
    (po_outcome = "returned" /\ verify_data(po_args.Y, po_args.Z, po_args.X))
        => /\ Len(po_data.Yt) = CountTrue([i \in 1..po_data.n |-> po_data.Z.v[i] = 1])
           /\ Len(po_data.Yc) = CountTrue([i \in 1..po_data.n |-> po_data.Z.v[i] = 0])
           /\ Len(po_data.Xt) = Len(po_data.Yt)
           /\ Len(po_data.Xc) = Len(po_data.Yc)
           /\ {"nt", "nc"} \subseteq Attrs
           /\ po_data.nt + po_data.nc = po_data.n
           /\ Len(po_data.Yt) = po_data.nt
           /\ Len(po_data.Yc) = po_data.nc

---------------------------------------------------------------------------
(* _fix_propensity (observational.py; potentialoutcome.py holds the same   *)
(* code).                                                                  *)

\* self.eps = 1e-4, as 1 / EpsInv
EpsInv == 10000
eps == Rat(1, EpsInv)

PropValues == {I2R(0), eps, Rat(1, 2), RSub(I2R(1), eps), I2R(1)}

\* a plausible slip: the whole array is nudged when a 0 is present
_fix_propensity_all(p) ==
    IF p.isnone THEN [propensity |-> p, warnings |-> <<>>]
    ELSE LET num_bad_prop ==
                 CountTrue([i \in 1..Len(p.v) |->
                               RMul(p.v[i], RSub(I2R(1), p.v[i])) = I2R(0)])
             p1 == [i \in 1..Len(p.v) |-> RAdd(p.v[i], eps)]
             p2 == [i \in 1..Len(p1) |->
                       IF p1[i] = I2R(1) THEN RSub(p1[i], eps) ELSE p1[i]]
         IN  IF num_bad_prop > 0
             THEN [propensity |-> PropArray(p2), warnings |-> <<num_bad_prop>>]
             ELSE [propensity |-> p, warnings |-> <<>>]

\* _fix_propensity on self.propensity = p: the array afterwards and the
\* counts reported by the warnings the call emits
_fix_propensity(p) ==
    IF p.isnone THEN [propensity |-> p, warnings |-> <<>>]
    ELSE LET num_bad_prop ==
                 CountTrue([i \in 1..Len(p.v) |->
                               RMul(p.v[i], RSub(I2R(1), p.v[i])) = I2R(0)])
             \* self.propensity[self.propensity == 0] += self.eps
             p1 == [i \in 1..Len(p.v) |->
                       IF p.v[i] = I2R(0) THEN RAdd(p.v[i], eps) ELSE p.v[i]]
             \* self.propensity[self.propensity == 1] -= self.eps
             p2 == [i \in 1..Len(p1) |->
                       IF p1[i] = I2R(1) THEN RSub(p1[i], eps) ELSE p1[i]]
         IN  IF num_bad_prop > 0
             THEN [propensity |-> PropArray(p2), warnings |-> <<num_bad_prop>>]
             ELSE [propensity |-> p, warnings |-> <<>>]

\* self.propensity has been set (None, a given vector or an estimate)
InitProp ==
    /\ unit = "prop"
    /\ fp_in \in {NoPropensity} \cup {PropArray(v) : v \in SeqsUpTo(PropValues, 0, MaxProp)}
    /\ fp_propensity = fp_in
    /\ fp_warnings = <<>>
    /\ fp_done = FALSE
    /\ IdleData /\ IdleIpw /\ IdleMatch /\ IdleDml /\ IdleExp /\ IdleRes /\ IdleKm

\* self._fix_propensity()
FixPropensity ==
    /\ unit = "prop"
    /\ ~fp_done
    /\ fp_propensity' = _fix_propensity(fp_propensity).propensity
    /\ fp_warnings' = _fix_propensity(fp_propensity).warnings
    /\ fp_done' = TRUE
    /\ UNCHANGED <<unit, fp_in, notProp>>

NextProp == FixPropensity

SpecProp == InitProp /\ [][NextProp]_vars

Degenerate(x) == x = I2R(0) \/ x = I2R(1)
NumDegenerate(v) == Cardinality({i \in 1..Len(v) : Degenerate(v[i])})

\* C3: _fix_propensity changes only the degenerate entries: every 0 becomes
\* eps, every 1 becomes 1 - eps, every entry strictly between 0 and 1 stays,
\* and one warning reporting the number of entries fixed is emitted exactly
\* when that number is positive.
C3_FixOnlyDegenerate ==
    (fp_done /\ ~fp_in.isnone) =>
        /\ ~fp_propensity.isnone
        /\ Len(fp_propensity.v) = Len(fp_in.v)
        /\ \A i \in 1..Len(fp_in.v) :
              /\ fp_in.v[i] = I2R(0) => fp_propensity.v[i] = eps
              /\ fp_in.v[i] = I2R(1) => fp_propensity.v[i] = RSub(I2R(1), eps)
              /\ (RLess(I2R(0), fp_in.v[i]) /\ RLess(fp_in.v[i], I2R(1)))
                    => fp_propensity.v[i] = fp_in.v[i]
        /\ fp_warnings = IF NumDegenerate(fp_in.v) > 0
                         THEN <<NumDegenerate(fp_in.v)>> ELSE <<>>

\* a vector with a 0, a 1 and an interior entry (eps itself) was fixed
C3_Witness ==
    /\ fp_done
    /\ ~fp_in.isnone
    /\ \E i, j, k \in 1..Len(fp_in.v) :
          /\ fp_in.v[i] = I2R(0) /\ fp_in.v[j] = I2R(1) /\ fp_in.v[k] = eps
          /\ fp_propensity.v[i] = eps /\ fp_propensity.v[k] = eps
    /\ fp_warnings = <<2>>

---------------------------------------------------------------------------
(* Experimental.cal_dm and Observational.est_via_ipw.  The standard error  *)
(* is carried as its square (se2), se itself being sqrt(se2).              *)

\* Experimental.cal_dm(Z, Y)
cal_dm(Z, Y) ==
    LET t  == [i \in 1..Len(Z) |-> Z[i] = 1]
        c  == [i \in 1..Len(Z) |-> Z[i] = 0]
        Y1 == MaskSelect(Y, t)
        Y0 == MaskSelect(Y, c)
        v1 == RVar(Y1)
        v2 == RVar(Y0)
    IN  [ate |-> RSub(RMean(Y1), RMean(Y0)),
         se2 |-> RAdd(RDiv(v1, I2R(CountTrue(t))), RDiv(v2, I2R(CountTrue(c))))]

\* w1 = Z / p and w0 = (1 - Z) / (1 - p)
IpwW1(Z, p) == [i \in 1..Len(Z) |-> RDiv(I2R(Z[i]), p[i])]
IpwW0(Z, p) == [i \in 1..Len(Z) |-> RDiv(I2R(1 - Z[i]), RSub(I2R(1), p[i]))]

\* a plausible slip: the control term is added instead of subtracted
IpwG_plus(Y, Z, p, normalize) ==
    LET w1 == IpwW1(Z, p)
        w0 == IpwW0(Z, p)
        n  == I2R(Len(Y))
    IN  IF normalize
        THEN [i \in 1..Len(Y) |->
                 RAdd(RDiv(RMul(w1[i], Y[i]), RDiv(RSum(w1), n)),
                      RDiv(RMul(w0[i], Y[i]), RDiv(RSum(w0), n)))]
        ELSE [i \in 1..Len(Y) |-> RAdd(RMul(w1[i], Y[i]), RMul(w0[i], Y[i]))]

\* a plausible slip: the weights are normalised by their sum, not their mean
IpwG_sum(Y, Z, p, normalize) ==
    LET w1 == IpwW1(Z, p)
        w0 == IpwW0(Z, p)
    IN  IF normalize
        THEN [i \in 1..Len(Y) |->
                 RSub(RDiv(RMul(w1[i], Y[i]), RSum(w1)),
                      RDiv(RMul(w0[i], Y[i]), RSum(w0)))]
        ELSE [i \in 1..Len(Y) |-> RSub(RMul(w1[i], Y[i]), RMul(w0[i], Y[i]))]

\* the pseudo-outcome G of est_via_ipw
IpwG(Y, Z, p, normalize) ==
    LET w1 == IpwW1(Z, p)
        w0 == IpwW0(Z, p)
        n  == I2R(Len(Y))
    IN  IF normalize
        THEN [i \in 1..Len(Y) |->
                 RSub(RDiv(RMul(w1[i], Y[i]), RDiv(RSum(w1), n)),
                      RDiv(RMul(w0[i], Y[i]), RDiv(RSum(w0), n)))]
        ELSE [i \in 1..Len(Y) |-> RSub(RMul(w1[i], Y[i]), RMul(w0[i], Y[i]))]

\* ate = np.mean(G); se = np.sqrt(np.var(G) / (len(G)-1))
IpwEstimate(G) ==
    [ate |-> RMean(G), se2 |-> RDiv(RVar(G), I2R(Len(G) - 1))]

IpwY == {I2R(-1), I2R(2)}
\* propensities an estimate or a caller supplies
IpwProps == {Rat(1, 4), Rat(1, 2)}

InitIpw ==
    /\ unit = "ipw"
    /\ IdleData /\ IdleProp /\ IdleIpw /\ IdleMatch /\ IdleDml /\ IdleExp /\ IdleRes /\ IdleKm

\* Observational(Y, Z, X): the dataset; self.propensity = None
ObservationalInit(Y, Z) ==
    /\ unit = "ipw"
    /\ ipw_data = <<>>
    /\ ipw_data' = [Y |-> Y, Z |-> Z, n |-> Len(Y)]
    /\ ipw_propensity' = NoPropensity
    /\ UNCHANGED <<unit, notIpw, ipw_call, ipw_result>>

\* est_via_ipw(PropensityModel, propensity, normalize): prop is the
\* propensity argument (a precomputed vector) or, when that is None, what
\* est_propensity returns (the in-sample probabilities of PropensityModel)
est_via_ipw(prop, normalize) ==
    /\ unit = "ipw"
    /\ ipw_data # <<>>
    /\ Len(prop) = ipw_data.n
    /\ LET fixed == _fix_propensity(PropArray(prop)).propensity
           G == IpwG(ipw_data.Y, ipw_data.Z, fixed.v, normalize)
       IN  /\ ipw_propensity' = fixed
           /\ ipw_result' = IpwEstimate(G)
    /\ ipw_call' = [propensity |-> prop, normalize |-> normalize]
    /\ UNCHANGED <<unit, notIpw, ipw_data>>

NextIpw ==
    \/ \E n \in 1..MaxUnits : \E Y \in [1..n -> IpwY], Z \in [1..n -> {0, 1}] :
          ObservationalInit(Y, Z)
    \/ \E normalize \in BOOLEAN : \E prop \in SeqsUpTo(IpwProps, 1, MaxUnits) :
          est_via_ipw(prop, normalize)

SpecIpw == InitIpw /\ [][NextIpw]_vars

\* the case of C4 and C5: a propensity of 0.5 for all units, at least one
\* treated and one control unit
IpwHalfCase(normalize) ==
    /\ ipw_call # <<>>
    /\ ipw_call.normalize = normalize
    /\ \A i \in 1..ipw_data.n : ipw_call.propensity[i] = Rat(1, 2)
    /\ \E i, j \in 1..ipw_data.n : ipw_data.Z[i] = 1 /\ ipw_data.Z[j] = 0

IpwTreated == [i \in 1..ipw_data.n |-> ipw_data.Z[i] = 1]
IpwControl == [i \in 1..ipw_data.n |-> ipw_data.Z[i] = 0]
IpwMeanDiff ==
    RSub(RMean(MaskSelect(ipw_data.Y, IpwTreated)),
         RMean(MaskSelect(ipw_data.Y, IpwControl)))
IpwSumDiff ==
    RSub(RSum(MaskSelect(ipw_data.Y, IpwTreated)),
         RSum(MaskSelect(ipw_data.Y, IpwControl)))

\* C4 as stated: with a precomputed propensity of 0.5 for all units and
\* normalize=False the effect is 2 * (mean(Y|Z=1) - mean(Y|Z=0)).
C4_TwiceMeanDiff ==
    IpwHalfCase(FALSE) => ipw_result.ate = RMul(I2R(2), IpwMeanDiff)

\* C4 as amended: with a precomputed propensity of 0.5 for all units and
\* normalize=False the effect is (2/n) * (sum(Y|Z=1) - sum(Y|Z=0)).
C4_TwoOverNSumDiff ==
    IpwHalfCase(FALSE) =>
        ipw_result.ate = RMul(Rat(2, ipw_data.n), IpwSumDiff)

\* unequal arms, and an effect that differs from twice the mean difference
C4_Witness ==
    /\ IpwHalfCase(FALSE)
    /\ CountTrue(IpwTreated) # CountTrue(IpwControl)
    /\ ipw_result.ate # RMul(I2R(2), IpwMeanDiff)
    /\ ipw_result.ate # I2R(0)

---------------------------------------------------------------------------
(* Observational.mat_match_mat.  Rows are points on a line (one covariate),*)
(* indices are numpy's, from 0.  For M = 1 tree.query returns one index    *)
(* per query row, held here as a row of length 1.                          *)

Coords == {0, 1, 3}

Dist(x, y) == Abs(x - y)

\* What tree.query(x, M) may return for one query row x over the donors Y:
\* the min(M, n) nearest donor indices in order of distance (ties in any
\* order), then the out-of-range index n in the slots it cannot fill.
KDQueryRow(x, Y, M) ==
    LET n == Len(Y)
        m == IF M < n THEN M ELSE n
    IN  {r \in [1..M -> 0..n] :
            /\ \A c \in 1..M : (c <= m) <=> (r[c] < n)
            /\ \A c, e \in 1..m : c < e =>
                  /\ r[c] # r[e]
                  /\ Dist(x, Y[r[c] + 1]) <= Dist(x, Y[r[e] + 1])
            /\ \A j \in 0..(n - 1) :
                  (\A c \in 1..m : r[c] # j) =>
                      \A c \in 1..m : Dist(x, Y[r[c] + 1]) <= Dist(x, Y[j + 1])}

\* tree = KDTree(Y); _, idx = tree.query(X, M)
KDQuery(X, Y, M) ==
    {q \in [1..Len(X) -> UNION {KDQueryRow(X[i], Y, M) : i \in 1..Len(X)}] :
        \A i \in 1..Len(X) : q[i] \in KDQueryRow(X[i], Y, M)}

\* np.arange(n)
Arange(n) == [i \in 1..n |-> i - 1]

\* np.tile(a, reps)
RECURSIVE Tile(_, _)
Tile(a, reps) == IF reps = 0 THEN <<>> ELSE a \o Tile(a, reps - 1)

\* the number of masked slots up to slot (r, c), in row-major order
MaskRank(mask, M, r, c) ==
    Cardinality({pos \in 1..((r - 1) * M + c) :
                    mask[((pos - 1) \div M) + 1][((pos - 1) % M) + 1]})

\* a plausible slip: the donors are listed once, not tiled, so the masked
\* slots beyond the n-th keep the out-of-range index
MatMatchFill_notile(idx, n, M) ==
    LET mask == [r \in 1..Len(idx) |-> [c \in 1..M |-> idx[r][c] = n]]
        fill == Arange(n)
    IN  [r \in 1..Len(idx) |-> [c \in 1..M |->
            IF mask[r][c] /\ MaskRank(mask, M, r, c) <= Len(fill)
            THEN fill[MaskRank(mask, M, r, c)]
            ELSE idx[r][c]]]

\* mask = idx == n; rmd = np.sum(mask);
\* if rmd: idx[mask] = np.tile(np.arange(n), rmd//n+1)[:rmd]
MatMatchFill(idx, n, M) ==
    LET mask == [r \in 1..Len(idx) |-> [c \in 1..M |-> idx[r][c] = n]]
        rmd  == MaskRank(mask, M, Len(idx), M)
        fill == SubSeq(Tile(Arange(n), (rmd \div n) + 1), 1, rmd)
    IN  IF rmd # 0
        THEN [r \in 1..Len(idx) |-> [c \in 1..M |->
                 IF mask[r][c] THEN fill[MaskRank(mask, M, r, c)] ELSE idx[r][c]]]
        ELSE idx

\* the caller holds the query rows, a non-empty donor pool and M >= 1
InitMatch ==
    /\ unit = "match"
    /\ mm_X \in SeqsUpTo(Coords, 1, MaxQueries)
    /\ mm_Y \in SeqsUpTo(Coords, 1, MaxDonors)
    /\ mm_M \in 1..MaxM
    /\ mm_query = <<>>
    /\ mm_idx = <<>>
    /\ IdleData /\ IdleProp /\ IdleIpw /\ IdleDml /\ IdleExp /\ IdleRes /\ IdleKm

\* mat_match_mat(X, Y, M)
mat_match_mat ==
    /\ unit = "match"
    /\ mm_idx = <<>>
    /\ \E idx \in KDQuery(mm_X, mm_Y, mm_M) :
          /\ mm_query' = idx
          /\ mm_idx' = MatMatchFill(idx, Len(mm_Y), mm_M)
    /\ UNCHANGED <<unit, notMatch, mm_X, mm_Y, mm_M>>

NextMatch == mat_match_mat

SpecMatch == InitMatch /\ [][NextMatch]_vars

\* the slots tree.query left unfilled, in row-major order
UnfilledSlots ==
    {s \in (1..Len(mm_query)) \X (1..mm_M) : mm_query[s[1]][s[2]] = Len(mm_Y)}
SlotsBefore(s) ==
    {t \in UnfilledSlots : t[1] < s[1] \/ (t[1] = s[1] /\ t[2] < s[2])}

---------------------------------------------------------------------------
(* Observational.est_via_dml: the cross-fitting loop over the folds of     *)
(* sklearn's KFold(n_splits=Kfolds) (no shuffling).  The learning models   *)
(* are external: of a model only the rows it was last fit on are kept, and *)
(* the residuals and theta computed from its predictions are not modelled. *)

\* KFold: the first n % K folds hold n // K + 1 rows, the others n // K
KFoldSize(n, K, k) == (n \div K) + (IF k <= n % K THEN 1 ELSE 0)

RECURSIVE KFoldStart(_, _, _)
KFoldStart(n, K, k) ==
    IF k = 1 THEN 0 ELSE KFoldStart(n, K, k - 1) + KFoldSize(n, K, k - 1)

\* idx_test and idx_train of the k-th split (k from 1) of np.arange(n)
KFoldTest(n, K, k) ==
    {i \in 0..(n - 1) :
        KFoldStart(n, K, k) <= i /\ i < KFoldStart(n, K, k) + KFoldSize(n, K, k)}
KFoldTrain(n, K, k) == (0..(n - 1)) \ KFoldTest(n, K, k)

\* a plausible slip: the models are fit on every row
DmlFitRows_all(idx_train, idx_test) == idx_train \cup idx_test

\* the rows handed to OutcomeModel.fit and TreatmentModel.fit in a fold
DmlFitRows(idx_train, idx_test) == idx_train

\* The call is about to be made.  OutcomeModel and TreatmentModel are the
\* shared default instances or the caller's: not fitted yet, or fitted
\* before on every row.
InitDml ==
    /\ unit = "dml"
    /\ dml_n \in 1..MaxDmlN
    /\ dml_K \in 1..(MaxDmlN + 1)
    /\ dml_K <= dml_n + 1
    /\ dml_pc = "call"
    /\ dml_fold = 0
    /\ dml_outcome \in {Unfitted, FittedOn(0..(dml_n - 1))}
    /\ dml_treatment = dml_outcome
    /\ dml_log = <<>>
    /\ IdleData /\ IdleProp /\ IdleIpw /\ IdleMatch /\ IdleExp /\ IdleRes /\ IdleKm

\* kf = KFold(n_splits=Kfolds), which raises ValueError for Kfolds < 2, and
\* the first step of kf.split(idx), which raises ValueError for Kfolds > n
DmlSplit ==
    /\ unit = "dml"
    /\ dml_pc = "call"
    /\ dml_pc' = IF dml_K < 2 \/ dml_K > dml_n THEN "raised" ELSE "loop"
    /\ UNCHANGED <<unit, notDml, dml_n, dml_K, dml_fold, dml_outcome, dml_treatment, dml_log>>

\* one pass of the loop body, on the next split (idx_train, idx_test)
DmlFold ==
    /\ unit = "dml"
    /\ dml_pc = "loop"
    /\ dml_fold < dml_K
    /\ LET k == dml_fold + 1
           idx_train == KFoldTrain(dml_n, dml_K, k)
           idx_test  == KFoldTest(dml_n, dml_K, k)
           \* OutcomeModel.fit(X[idx_train], Y[idx_train])
           outcome   == FittedOn(DmlFitRows(idx_train, idx_test))
           \* TreatmentModel.fit(X[idx_train], Z[idx_train])
           treatment == FittedOn(DmlFitRows(idx_train, idx_test))
       IN  /\ dml_outcome' = outcome
           /\ dml_treatment' = treatment
           \* U and V: Y[idx_test], Z[idx_test] minus the predictions of the
           \* models as just fitted
           /\ dml_log' = Append(dml_log, [test  |-> idx_test,
                                          U_fit |-> outcome,
                                          V_fit |-> treatment])
           /\ dml_fold' = k
    /\ UNCHANGED <<unit, notDml, dml_n, dml_K, dml_pc>>

\* the splits are exhausted: ate, se and the result
DmlFinish ==
    /\ unit = "dml"
    /\ dml_pc = "loop"
    /\ dml_fold = dml_K
    /\ dml_pc' = "done"
    /\ UNCHANGED <<unit, notDml, dml_n, dml_K, dml_fold, dml_outcome, dml_treatment, dml_log>>

NextDml == DmlSplit \/ DmlFold \/ DmlFinish

SpecDml == InitDml /\ [][NextDml]_vars

\* C7: for 2 <= K <= n the held-out index sets of the K folds are pairwise
\* disjoint and their union is 0..n-1, and in every fold the rows both models
\* were fit on are disjoint from the fold's held-out rows, on which U and V
\* are computed.
C7_CrossFitPartition ==
    /\ (2 <= dml_K /\ dml_K <= dml_n) => dml_pc # "raised"
    /\ \A k \in 1..Len(dml_log) :
          /\ dml_log[k].U_fit.fitted /\ dml_log[k].V_fit.fitted
          /\ dml_log[k].U_fit.rows \cap dml_log[k].test = {}
          /\ dml_log[k].V_fit.rows \cap dml_log[k].test = {}
          /\ dml_log[k].test # {}
          /\ \A j \in 1..Len(dml_log) : j # k => dml_log[j].test \cap dml_log[k].test = {}
    /\ dml_pc = "done" =>
          /\ Len(dml_log) = dml_K
          /\ UNION {dml_log[k].test : k \in 1..Len(dml_log)} = 0..(dml_n - 1)

\* a finished run whose folds have unequal sizes, with models fitted before
C7_Witness ==
    /\ dml_pc = "done"
    /\ dml_K >= 3
    /\ dml_n % dml_K # 0
    /\ Len(dml_log) = dml_K
    /\ Cardinality(dml_log[1].test) > Cardinality(dml_log[dml_K].test)

---------------------------------------------------------------------------
(* Experimental: construction, the estimators and test_via_fisher.  The    *)
(* Design class (designs.CRD) is outside the sources at hand and follows   *)
(* its description: get_params_via_obs(Z) calibrates the design to the     *)
(* observed assignment Z, draw(n) samples a length-n assignment with the   *)
(* calibrated number of treated units.  The regression of est_via_ancova   *)
(* is statsmodels' and its estimate is not modelled.                       *)

\* the outcomes of an experiment on n units
ExpY(n) == [i \in 1..n |-> I2R(i * i)]

\* the observed assignments: binary, both arms present
ExpZ(n) == {Z \in [1..n -> {0, 1}] : \E i, j \in 1..n : Z[i] = 1 /\ Z[j] = 0}

\* Design.get_params_via_obs(Z), called on behalf of object o
get_params_via_obs(Z, o) == [calibrated |-> TRUE, Z |-> Z, by |-> o]

\* Design.draw(n): the assignments a calibrated design may return
DesignDraw(cal, n) ==
    {Zs \in [1..n -> {0, 1}] :
        CountTrue([i \in 1..n |-> Zs[i] = 1])
            = CountTrue([i \in 1..Len(cal.Z) |-> cal.Z[i] = 1])}

\* the lambda est_via_dm stores in self.cal_stats
DmStatistic(Y, Z) ==
    RSub(RMean(MaskSelect(Y, [i \in 1..Len(Z) |-> Z[i] = 1])),
         RMean(MaskSelect(Y, [i \in 1..Len(Z) |-> Z[i] = 0])))

\* the sums est_via_strata accumulates over the labels in L
RECURSIVE StrataSums(_, _, _, _)
StrataSums(L, strata, Z, Y) ==
    IF L = {} THEN [ate |-> I2R(0), se2 |-> I2R(0)]
    ELSE LET l    == CHOOSE x \in L : TRUE
             in_l == [i \in 1..Len(strata) |-> strata[i] = l]
             w    == Rat(CountTrue(in_l), Len(strata))
             dm   == cal_dm(MaskSelect(Z, in_l), MaskSelect(Y, in_l))
             rest == StrataSums(L \ {l}, strata, Z, Y)
         IN  [ate |-> RAdd(RMul(dm.ate, w), rest.ate),
              se2 |-> RAdd(RMul(dm.se2, RMul(w, w)), rest.se2)]

\* the strata arguments tried: one stratum, two strata, a list, a short array
ExpStrata(n) ==
    {[isarray |-> TRUE, v |-> [i \in 1..n |-> 0]],
     [isarray |-> TRUE, v |-> [i \in 1..n |-> IF 2 * i <= n THEN 0 ELSE 1]],
     [isarray |-> FALSE, v |-> [i \in 1..n |-> 0]],
     [isarray |-> TRUE, v |-> [i \in 1..(n - 1) |-> 0]]}

\* min(np.mean(T_s > self.stats), np.mean(T_s < self.stats))
FisherPValue(T_s, stats) ==
    LET gt == Rat(CountTrue([i \in 1..Len(T_s) |-> RLess(stats, T_s[i])]), Len(T_s))
        lt == Rat(CountTrue([i \in 1..Len(T_s) |-> RLess(T_s[i], stats)]), Len(T_s))
    IN  IF RLess(gt, lt) THEN gt ELSE lt

InitExp ==
    /\ unit = "exp"
    /\ IdleExp
    /\ IdleData /\ IdleProp /\ IdleIpw /\ IdleMatch /\ IdleDml /\ IdleRes /\ IdleKm

\* Experimental(Y, Z, X, design): d is "default" when the design argument is
\* left out, and the object's own design otherwise
ExperimentalInit(o, Z, d) ==
    /\ unit = "exp"
    /\ ~exp_obj[o].built
    /\ d \in {"default", o}
    /\ exp_obj' = [exp_obj EXCEPT ![o] =
                      [built |-> TRUE, Y |-> ExpY(Len(Z)), Z |-> Z, design |-> d,
                       cal_stats |-> "none", stats |-> NaN,
                       estimator |-> "none", ate |-> NaN]]
    \* self.design = design; self.design.get_params_via_obs(Z)
    /\ exp_design' = [exp_design EXCEPT ![d] = get_params_via_obs(Z, o)]
    /\ exp_ret' = [kind |-> "init", obj |-> o]
    /\ UNCHANGED <<unit, notExp>>

\* est_via_dm(), and estimate(), which calls it
est_via_dm(o) ==
    /\ unit = "exp"
    /\ exp_obj[o].built
    /\ LET dm == cal_dm(exp_obj[o].Z, exp_obj[o].Y)
       IN  /\ exp_obj' = [exp_obj EXCEPT
                             ![o].cal_stats = "dm",
                             ![o].stats = DmStatistic(exp_obj[o].Y, exp_obj[o].Z),
                             ![o].estimator = "dm",
                             ![o].ate = dm.ate]
           /\ exp_ret' = [kind |-> "result", obj |-> o, estimator |-> "dm",
                          ate |-> dm.ate, se2 |-> dm.se2]
    /\ UNCHANGED <<unit, notExp, exp_design>>

estimate(o) == est_via_dm(o)

\* est_via_strata(strata)
est_via_strata(o, strata) ==
    /\ unit = "exp"
    /\ exp_obj[o].built
    /\ IF Len(strata.v) # Len(exp_obj[o].Z)
       THEN /\ exp_ret' = [kind |-> "raised", obj |-> o, error |-> "RuntimeError"]
            /\ UNCHANGED exp_obj
       ELSE IF ~strata.isarray
       THEN /\ exp_ret' = [kind |-> "raised", obj |-> o, error |-> "TypeError"]
            /\ UNCHANGED exp_obj
       ELSE LET sums == StrataSums({strata.v[i] : i \in 1..Len(strata.v)},
                                   strata.v, exp_obj[o].Z, exp_obj[o].Y)
            IN  /\ exp_obj' = [exp_obj EXCEPT ![o].estimator = "strata",
                                              ![o].ate = sums.ate]
                /\ exp_ret' = [kind |-> "result", obj |-> o, estimator |-> "strata",
                               ate |-> sums.ate, se2 |-> sums.se2]
    /\ UNCHANGED <<unit, notExp, exp_design>>

\* est_via_ancova(): ate and se are read off the fitted regression
est_via_ancova(o) ==
    /\ unit = "exp"
    /\ exp_obj[o].built
    /\ exp_obj' = [exp_obj EXCEPT ![o].estimator = "ancova", ![o].ate = NaN]
    /\ exp_ret' = [kind |-> "result", obj |-> o, estimator |-> "ancova",
                   ate |-> NaN, se2 |-> NaN]
    /\ UNCHANGED <<unit, notExp, exp_design>>

\* test_via_fisher(n) with n = reps >= 1: draws are the assignments
\* self.design.draw returns.  With self.cal_stats None the first evaluation
\* raises TypeError, after the first draw.
test_via_fisher(o, reps, draws) ==
    /\ unit = "exp"
    /\ exp_obj[o].built
    /\ LET cal == exp_design[exp_obj[o].design]
           T_s == [i \in 1..reps |-> DmStatistic(exp_obj[o].Y, draws[i])]
       IN  /\ exp_ret' =
                 [kind |-> "fisher", obj |-> o,
                  \* the state of the design the draws came from
                  drawn_from |-> cal,
                  \* the statistic function evaluated on the draws, the
                  \* estimator behind the object's current point estimate
                  cal_stats |-> exp_obj[o].cal_stats,
                  estimator |-> exp_obj[o].estimator,
                  outcome |-> IF exp_obj[o].cal_stats = "none"
                              THEN "TypeError" ELSE "pval",
                  pval |-> IF exp_obj[o].cal_stats = "none" THEN NaN
                           ELSE FisherPValue(T_s, exp_obj[o].stats)]
    /\ UNCHANGED <<unit, notExp, exp_obj, exp_design>>

\* what self.design.draw(self.data.n) may return to object o
ObjectDraws(o) ==
    IF exp_obj[o].built
    THEN DesignDraw(exp_design[exp_obj[o].design], Len(exp_obj[o].Z))
    ELSE {}

NextExp ==
    \/ \E o \in Objects, d \in Designs : \E Z \in ExpZ(ExpUnits) : ExperimentalInit(o, Z, d)
    \/ \E o \in Objects : est_via_dm(o)
    \/ \E o \in Objects : estimate(o)
    \/ \E o \in Objects : \E strata \in ExpStrata(ExpUnits) : est_via_strata(o, strata)
    \/ \E o \in Objects : est_via_ancova(o)
    \/ \E o \in Objects, reps \in 1..MaxReps :
          \E draws \in [1..reps -> ObjectDraws(o)] : test_via_fisher(o, reps, draws)

SpecExp == InitExp /\ [][NextExp]_vars

\* C8: at every draw test_via_fisher makes on an object, the design it
\* draws from was last calibrated by get_params_via_obs with that same
\* object's observed Z (several objects built with the default design
\* argument included).
C8_DrawsFromOwnCalibration ==
    exp_ret.kind = "fisher" =>
        /\ exp_ret.drawn_from.calibrated
        /\ exp_ret.drawn_from.Z = exp_obj[exp_ret.obj].Z

\* C9: after any sequence of estimator calls, test_via_fisher evaluates the
\* draws with the statistic function of the estimator that produced the most
\* recent point estimate: never with an unset one, never with one left over
\* from an earlier, different estimator.
C9_StatisticOfLatestEstimator ==
    (exp_ret.kind = "fisher" /\ exp_ret.estimator # "none") =>
        /\ exp_ret.cal_stats # "none"
        /\ exp_ret.cal_stats = exp_ret.estimator
        /\ exp_ret.outcome = "pval"

---------------------------------------------------------------------------
(* PotentialOutcome._get_results.  z = ate/se is kept as its sign and      *)
(* k = floor(2|z|), capped at 8 (|z| >= 4, infinity included); norm.cdf is *)
(* tabulated on that grid in units of 1/10000.  The confidence interval    *)
(* (ate -+ 1.96 se) is not modelled.                                       *)

\* scipy's norm.cdf at 0, 0.5, ..., 4, times 10000
PhiTable == <<5000, 6915, 8413, 9332, 9772, 9938, 9987, 9998, 10000>>

\* ate/se with se = sqrt(se2): floor(2|z|) = floor(sqrt(4 ate^2 / se2))
ZScore(ate, se2) ==
    IF ~Finite(ate) \/ ~Finite(se2) \/ se2.n < 0 \/ (se2.n = 0 /\ ate.n = 0)
    THEN [nan |-> TRUE, neg |-> FALSE, k |-> 0]
    ELSE IF se2.n = 0
    THEN [nan |-> FALSE, neg |-> ate.n < 0, k |-> 8]
    ELSE LET q == RDiv(RMul(I2R(4), RMul(ate, ate)), se2)
             x == q.n \div q.d
         IN  [nan |-> FALSE, neg |-> ate.n < 0,
              k |-> CHOOSE r \in 0..8 : r * r <= x /\ (r = 8 \/ (r + 1) * (r + 1) > x)]

\* norm.cdf(z)
NormCdf(z) ==
    IF z.nan THEN NaN
    ELSE IF z.neg THEN Rat(10000 - PhiTable[z.k + 1], 10000)
    ELSE Rat(PhiTable[z.k + 1], 10000)

\* _get_results(G)
_get_results(G) ==
    LET ate == RMean(G)
        \* se = np.sqrt(np.var(G) / (len(G)-1))
        se2 == RDiv(RVar(G), I2R(Len(G) - 1))
        z   == ZScore(ate, se2)
    IN  [average_treatment_effect |-> ate,
         se2 |-> se2,
         z |-> z,
         p_value |-> RMul(RSub(I2R(1), NormCdf(z)), I2R(2))]

GValues == {I2R(-2), I2R(-1), I2R(0), I2R(1), I2R(3)}

\* the estimator holds the pseudo-outcomes G it is about to pass
InitRes ==
    /\ unit = "result"
    /\ res_G \in SeqsUpTo(GValues, 1, MaxG)
    /\ res_result = <<>>
    /\ IdleData /\ IdleProp /\ IdleIpw /\ IdleMatch /\ IdleDml /\ IdleExp /\ IdleKm

GetResults ==
    /\ unit = "result"
    /\ res_result = <<>>
    /\ res_result' = _get_results(res_G)
    /\ UNCHANGED <<unit, notRes, res_G>>

NextRes == GetResults

SpecRes == InitRes /\ [][NextRes]_vars

\* C10: p_value is the two-sided standard-normal tail probability of
\* z = effect/standard_error: for every effect and every standard error > 0
\* it lies in [0, 1], and it is the same for effect e and effect -e with the
\* same standard error.
C10_TwoSidedPValue ==
    (res_result # <<>> /\ Finite(res_result.se2) /\ res_result.se2.n > 0) =>
        /\ ~RLess(res_result.p_value, I2R(0))
        /\ ~RLess(I2R(1), res_result.p_value)
        /\ res_result.p_value
              = _get_results([i \in 1..Len(res_G) |-> RNeg(res_G[i])]).p_value

---------------------------------------------------------------------------
(* Observational.est_via_matching: the two neighbour selections and the    *)
(* match-count loops that build Km.  The covariates arrive already scaled, *)
(* nt and nc are the numbers of treated and of control rows; the outcomes, *)
(* the bias adjustment and the variance formula are not modelled.          *)

\* every matrix self.mat_match_mat(X, Y, M) may return
MatMatchMat(X, Y, M) == {MatMatchFill(idx, Len(Y), M) : idx \in KDQuery(X, Y, M)}

\* Km[row + off] += 1 with an index array: numpy reads Km at the indices,
\* adds one and writes the sums back, so a unit listed more than once in
\* row goes up by one
KmAddRow(Km, row, off) ==
    [i \in 1..Len(Km) |->
        IF \E c \in 1..Len(row) : row[c] + off = i - 1
        THEN Km[i] + 1
        ELSE Km[i]]

\* for row in match: Km[row + off] += 1
RECURSIVE KmLoop(_, _, _)
KmLoop(Km, match, off) ==
    IF match = <<>>
    THEN Km
    ELSE KmLoop(KmAddRow(Km, Head(match), off), Tail(match), off)

\* Km = np.zeros(n), the loop over match_for_c, the loop over match_for_t
MatchCounts(match_t, match_c, nt, n) ==
    KmLoop(KmLoop([i \in 1..n |-> 0], match_c, 0), match_t, nt)

\* the caller holds scaled covariates of at least one treated and one
\* control unit, and num_matches >= 1
InitKm ==
    /\ unit = "km"
    /\ km_Xt \in SeqsUpTo(Coords, 1, MaxTreated)
    /\ km_Xc \in SeqsUpTo(Coords, 1, MaxControl)
    /\ km_M \in 1..MaxMatches
    /\ km_match_t = <<>>
    /\ km_match_c = <<>>
    /\ km_Km = <<>>
    /\ IdleData /\ IdleProp /\ IdleIpw /\ IdleMatch /\ IdleDml /\ IdleExp /\ IdleRes

\* est_via_matching(num_matches=M), up to the end of the match-count loops
est_via_matching ==
    /\ unit = "km"
    /\ km_Km = <<>>
    /\ \E mt \in MatMatchMat(km_Xt, km_Xc, km_M) :
       \E mc \in MatMatchMat(km_Xc, km_Xt, km_M) :
          /\ km_match_t' = mt
          /\ km_match_c' = mc
          /\ km_Km' = MatchCounts(mt, mc, Len(km_Xt), Len(km_Xt) + Len(km_Xc))
    /\ UNCHANGED <<unit, notKm, km_Xt, km_Xc, km_M>>

NextKm == est_via_matching

SpecKm == InitKm /\ [][NextKm]_vars

\* the (matched unit, slot) pairs of a match matrix that name donor j
DonorSlots(match, j) ==
    {s \in (1..Len(match)) \X (1..km_M) : match[s[1]][s[2]] = j}

\* how often unit i (treated 0..nt-1, control nt..n-1) appears as a donor
DonorUses(i) ==
    IF i < Len(km_Xt)
    THEN Cardinality(DonorSlots(km_match_c, i))
    ELSE Cardinality(DonorSlots(km_match_t, i - Len(km_Xt)))

RECURSIVE KmSum(_)
KmSum(Km) == IF Km = <<>> THEN 0 ELSE Head(Km) + KmSum(Tail(Km))

\* C11: after the match-count loops of est_via_matching, Km[i] of every
\* unit i (treated at 0..nt-1, control at nt..n-1) is the number of (matched
\* unit, slot) pairs of match_for_c and match_for_t in which i is the donor,
\* 0 for a unit never matched, so that sum(Km) = n * M; also when a row
\* names the same donor more than once because the donor pool is smaller
\* than M.
C11_KmCountsDonorSlots ==
    km_Km # <<>> =>
        /\ Len(km_Km) = Len(km_Xt) + Len(km_Xc)
        /\ \A i \in 0..(Len(km_Km) - 1) : km_Km[i + 1] = DonorUses(i)
        /\ KmSum(km_Km) = (Len(km_Xt) + Len(km_Xc)) * km_M

---------------------------------------------------------------------------
(* Any one component. *)

Init ==
    \/ InitData
    \/ InitProp
    \/ InitIpw
    \/ InitMatch
    \/ InitDml
    \/ InitExp
    \/ InitRes
    \/ InitKm

Next ==
    \/ NextData
    \/ NextProp
    \/ NextIpw
    \/ NextMatch
    \/ NextDml
    \/ NextExp
    \/ NextRes
    \/ NextKm

Spec == Init /\ [][Next]_vars

===========================================================================
